---- MODULE Spec2Model ----
(***************************************************************************)
(* SixtyNine: shortest expressions over the atoms -69, 69, -6, 6, -9, 9.   *)
(* The module models the Exact rational arithmetic (class Exact), the      *)
(* terms (Atom2, Expression2) and the level-by-level search                *)
(* getExpression_version3 of the source.                                   *)
(***************************************************************************)
EXTENDS Integers, Sequences, FiniteSets, TLC

(***************************************************************************)
(* JavaScript BigInt.  A BigInt is a sign and a magnitude; the magnitude   *)
(* is a little-endian sequence of limbs in base 10000 without high zero    *)
(* limbs, so that values of any size are exact.                            *)
(***************************************************************************)
Base == 100 * 100

RECURSIVE MagNorm(_)
MagNorm(m) ==
  IF m = <<>> THEN <<>>
  ELSE IF m[Len(m)] = 0 THEN MagNorm(SubSeq(m, 1, Len(m) - 1)) ELSE m

RECURSIVE MagOfNat(_)
MagOfNat(n) == IF n = 0 THEN <<>> ELSE <<n % Base>> \o MagOfNat(n \div Base)

\* only for magnitudes of at most two limbs
NatOfMag(m) ==
  IF m = <<>> THEN 0 ELSE IF Len(m) = 1 THEN m[1] ELSE m[1] + Base * m[2]

RECURSIVE MagCmpAt(_, _, _)
MagCmpAt(a, b, i) ==
  IF i = 0 THEN 0
  ELSE IF a[i] < b[i] THEN -1
  ELSE IF a[i] > b[i] THEN 1
  ELSE MagCmpAt(a, b, i - 1)

MagCmp(a, b) ==
  IF Len(a) < Len(b) THEN -1
  ELSE IF Len(a) > Len(b) THEN 1
  ELSE MagCmpAt(a, b, Len(a))

RECURSIVE MagAddC(_, _, _)
MagAddC(a, b, c) ==
  IF a = <<>> /\ b = <<>> THEN (IF c = 0 THEN <<>> ELSE <<c>>)
  ELSE LET x == IF a = <<>> THEN 0 ELSE Head(a)
           y == IF b = <<>> THEN 0 ELSE Head(b)
           s == x + y + c
       IN  <<s % Base>> \o MagAddC(IF a = <<>> THEN <<>> ELSE Tail(a),
                                   IF b = <<>> THEN <<>> ELSE Tail(b),
                                   s \div Base)

MagAdd(a, b) == MagAddC(a, b, 0)

\* a - b for a >= b
RECURSIVE MagSubC(_, _, _)
MagSubC(a, b, c) ==
  IF a = <<>> THEN <<>>
  ELSE LET y == IF b = <<>> THEN 0 ELSE Head(b)
           d == Head(a) - y - c
       IN  <<IF d < 0 THEN d + Base ELSE d>>
             \o MagSubC(Tail(a), IF b = <<>> THEN <<>> ELSE Tail(b),
                        IF d < 0 THEN 1 ELSE 0)

MagSub(a, b) == MagNorm(MagSubC(a, b, 0))

RECURSIVE MagMulLimbC(_, _, _)
MagMulLimbC(a, d, c) ==
  IF a = <<>> THEN (IF c = 0 THEN <<>> ELSE <<c>>)
  ELSE LET p == Head(a) * d + c
       IN  <<p % Base>> \o MagMulLimbC(Tail(a), d, p \div Base)

MagMulLimb(a, d) == MagNorm(MagMulLimbC(a, d, 0))

RECURSIVE MagMul(_, _)
MagMul(a, b) ==
  IF a = <<>> \/ b = <<>> THEN <<>>
  ELSE LET rest == MagMul(a, Tail(b))
       IN  MagAdd(MagMulLimb(a, Head(b)),
                  IF rest = <<>> THEN <<>> ELSE <<0>> \o rest)

\* the largest limb d with d * b <= cur, searched between lo and hi
RECURSIVE QuotLimb(_, _, _, _)
QuotLimb(cur, b, lo, hi) ==
  IF lo = hi THEN lo
  ELSE LET mid == (lo + hi + 1) \div 2
       IN  IF MagCmp(MagMulLimb(b, mid), cur) <= 0
           THEN QuotLimb(cur, b, mid, hi)
           ELSE QuotLimb(cur, b, lo, mid - 1)

\* long division of a by b # 0, limb i of a downwards; rem < b throughout.
\* MagDivStep brings limb i down into cur, MagDivLimb finds the quotient limb
\* d, MagDivNext subtracts d * b.
RECURSIVE MagDivStep(_, _, _, _, _)
RECURSIVE MagDivLimb(_, _, _, _, _)
RECURSIVE MagDivNext(_, _, _, _, _, _)
MagDivNext(a, b, i, cur, q, d) ==
  MagDivStep(a, b, i - 1, MagSub(cur, MagMulLimb(b, d)), <<d>> \o q)

MagDivLimb(a, b, i, cur, q) ==
  MagDivNext(a, b, i, cur, q,
             IF MagCmp(cur, b) < 0 THEN 0
             ELSE IF Len(cur) <= 2 THEN NatOfMag(cur) \div NatOfMag(b)
             ELSE QuotLimb(cur, b, 0, Base - 1))

MagDivStep(a, b, i, rem, q) ==
  IF i = 0 THEN [q |-> MagNorm(q), r |-> rem]
  ELSE MagDivLimb(a, b, i, MagNorm(<<a[i]>> \o rem), q)

MagDivMod(a, b) ==
  IF Len(a) <= 2 /\ Len(b) <= 2
  THEN [q |-> MagOfNat(NatOfMag(a) \div NatOfMag(b)),
        r |-> MagOfNat(NatOfMag(a) % NatOfMag(b))]
  ELSE MagDivStep(a, b, Len(a), <<>>, <<>>)

Big(neg, mag) == [neg |-> neg /\ mag # <<>>, mag |-> mag]

\* BigInt(N) for a Number N, and the literals the source writes
BigInt(n) == Big(n < 0, MagOfNat(IF n < 0 THEN -n ELSE n))

BigZero == BigInt(0)

BigOne == BigInt(1)

BigNeg(x) == Big(~x.neg, x.mag)

BigAdd(x, y) ==
  IF x.neg = y.neg THEN Big(x.neg, MagAdd(x.mag, y.mag))
  ELSE IF MagCmp(x.mag, y.mag) >= 0 THEN Big(x.neg, MagSub(x.mag, y.mag))
  ELSE Big(y.neg, MagSub(y.mag, x.mag))

BigSub(x, y) == BigAdd(x, BigNeg(y))

BigMul(x, y) == Big(x.neg # y.neg, MagMul(x.mag, y.mag))

\* x / y and x % y of BigInt: the quotient truncates towards zero, the
\* remainder has the sign of the dividend
BigDiv(x, y) == Big(x.neg # y.neg, MagDivMod(x.mag, y.mag).q)

BigRem(x, y) == Big(x.neg, MagDivMod(x.mag, y.mag).r)

BigLess(x, y) ==
  IF x.neg # y.neg THEN x.neg
  ELSE IF x.neg THEN MagCmp(x.mag, y.mag) > 0
  ELSE MagCmp(x.mag, y.mag) < 0

\* the Number value of a BigInt of at most two limbs
BigToInt(x) == IF x.neg THEN -NatOfMag(x.mag) ELSE NatOfMag(x.mag)

(***************************************************************************)
(* class Exact                                                             *)
(***************************************************************************)
\* constructor (N): num = BigInt(N), den = 1n, root = 1n
Exact(n) == [num |-> BigInt(n), den |-> BigOne, root |-> BigOne]

copy(this) == [num |-> this.num, den |-> this.den, root |-> this.root]

\* static gcd(X, Y): swap so that X >= Y, then the remainder loop
RECURSIVE gcdLoop(_, _)
RECURSIVE gcdLoopY(_, _)
gcdLoopY(X, Y) == IF X = BigZero THEN Y ELSE gcdLoop(X, BigRem(Y, X))

gcdLoop(X, Y) == IF Y = BigZero THEN X ELSE gcdLoopY(BigRem(X, Y), Y)

gcd(X, Y) == IF BigLess(X, Y) THEN gcdLoop(Y, X) ELSE gcdLoop(X, Y)

Abs(X) == IF BigLess(X, BigZero) THEN BigNeg(X) ELSE X

\* -1n when X < 0n, else 1n
Factor(X) == IF BigLess(X, BigZero) THEN BigInt(-1) ELSE BigOne

inverse(this) ==
  [num |-> BigMul(Factor(this.num), this.den), den |-> Abs(this.num),
   root |-> this.root]

\* Quotient without the divisions by GCD
QuotientUnreduced(Num, Den, GCD) == [num |-> Num, den |-> Den, root |-> BigOne]

\* a new Exact(1) with num = Num / GCD and den = Den / GCD
Quotient(Num, Den, GCD) ==
  [num |-> BigDiv(Num, GCD), den |-> BigDiv(Den, GCD), root |-> BigOne]

\* GCD = Exact.gcd(Exact.Abs(Num), Den) and the quotients by it
Reduce(Num, Den) == Quotient(Num, Den, gcd(Abs(Num), Den))

plus(this, that) ==
  Reduce(BigAdd(BigMul(this.num, that.den), BigMul(this.den, that.num)),
         BigMul(this.den, that.den))

\* minus that adds
minusAdding(this, that) ==
  Reduce(BigAdd(BigMul(this.num, that.den), BigMul(this.den, that.num)),
         BigMul(this.den, that.den))

minus(this, that) ==
  Reduce(BigSub(BigMul(this.num, that.den), BigMul(this.den, that.num)),
         BigMul(this.den, that.den))

\* times returns new Exact(0) when GCD === 0n
timesBy(Num, Den, GCD) ==
  IF GCD = BigZero THEN Exact(0) ELSE Quotient(Num, Den, GCD)

timesOf(Num, Den) == timesBy(Num, Den, gcd(Abs(Num), Den))

times(this, that) ==
  timesOf(BigMul(this.num, that.num), BigMul(this.den, that.den))

\* overOf without the sign Factor
overOfUnsigned(Num, Den) == Reduce(Num, Abs(Den))

\* Div.num = Factor * Num / GCD, Div.den = AbsDen / GCD for the sign Factor
\* of Den
overOf(Num, Den) ==
  Reduce(BigMul(Factor(Den), Num), Abs(Den))

\* over that answers 0 for a zero divisor
overZero(this, that) ==
  IF that.num = BigZero THEN Exact(0)
  ELSE overOf(BigMul(this.num, that.den), BigMul(this.den, that.num))

over(this, that) ==
  IF that.num = BigZero THEN [error |-> TRUE]
  ELSE overOf(BigMul(this.num, that.den), BigMul(this.den, that.num))

\* BigIntLog10: how often bigInt is divided by 10n while |bigInt| > 10n
RECURSIVE BigIntLog10Loop(_, _)
BigIntLog10Loop(bigInt, counter) ==
  IF BigLess(BigInt(10), Abs(bigInt))
  THEN BigIntLog10Loop(BigDiv(bigInt, BigInt(10)), counter + 1)
  ELSE counter

BigIntLog10(bigInt) == BigIntLog10Loop(bigInt, 0)

\* Math.abs of a Number
MathAbs(x) == IF x < 0 THEN -x ELSE x

\* the digit-growth threshold of toThe and its limit on the exponent
OverflowDigits == 20

MaxExponent == 100

\* the body of the for loop of toThe: Res = Res.times(This), giving up once
\* the two digit counters differ by more than OverflowDigits
toTheGuard(Res) ==
  IF MathAbs(BigIntLog10(Res.num) - BigIntLog10(Res.den)) > OverflowDigits
  THEN [overflow |-> TRUE]
  ELSE Res

toTheStep(Res, This) == toTheGuard(times(Res, This))

\* the iterations lo .. hi of the for loop, in order (split in halves to keep
\* the evaluation shallow); an overflow ends the loop
RECURSIVE toTheLoop(_, _, _, _)
toTheLoop(Res, This, lo, hi) ==
  IF "overflow" \in DOMAIN Res \/ lo > hi THEN Res
  ELSE IF lo = hi THEN toTheStep(Res, This)
  ELSE toTheLoop(toTheLoop(Res, This, lo, (lo + hi) \div 2), This,
                 (lo + hi) \div 2 + 1, hi)

\* the end of toThe: the result of the loop, reduced and given the root
toTheResult(Res, Root) ==
  IF "overflow" \in DOMAIN Res THEN Res
  ELSE [Reduce(Res.num, Res.den) EXCEPT !.root = Root]

toThePower(This, NumAbs, Root) ==
  IF BigLess(BigInt(MaxExponent), NumAbs) THEN [overflow |-> TRUE]
  ELSE toTheResult(toTheLoop(copy(This), This, 1, BigToInt(NumAbs) - 1), Root)

\* toThe without the test on that.root
toTheAnyRoot(this, that) ==
  toThePower(IF BigLess(that.num, BigZero) THEN inverse(this) ELSE copy(this),
             Abs(that.num), that.den)

toThe(this, that) ==
  IF that.root # BigOne THEN [error |-> TRUE]
  ELSE toThePower(IF BigLess(that.num, BigZero) THEN inverse(this)
                  ELSE copy(this),
                  Abs(that.num), that.den)

\* Digit.indexOf(Mod).toString() for Mod in 0n .. 9n
DigitChar == <<"0", "1", "2", "3", "4", "5", "6", "7", "8", "9">>

RECURSIVE displayLoop(_, _)
displayLoop(IntV, returnString) ==
  IF BigLess(BigZero, IntV)
  THEN displayLoop(BigDiv(IntV, BigInt(10)),
                   <<DigitChar[BigToInt(BigRem(IntV, BigInt(10))) + 1]>>
                     \o returnString)
  ELSE returnString

\* get display: the marker {float: true}, or the decimal string (a string is
\* the sequence of its characters)
display(this) ==
  IF this.den # BigOne \/ this.root # BigOne THEN [float |-> TRUE]
  ELSE IF this.num = BigZero THEN [string |-> <<"0">>]
  ELSE [string |-> (IF BigLess(this.num, BigZero) THEN <<"-">> ELSE <<>>)
                     \o displayLoop(Abs(this.num), <<>>)]

(***************************************************************************)
(* JavaScript objects used as tables.  An object is the sequence of its    *)
(* entries [key, val] in the order for-in visits them: the keys that are   *)
(* array indices (canonical decimal strings of 0 .. 2^32 - 2) in ascending *)
(* numeric order, then the other keys in the order they were created.      *)
(***************************************************************************)
DigitVal(c) == CHOOSE i \in 0 .. 9 : DigitChar[i + 1] = c

IsDigits(key) == \A i \in 1 .. Len(key) : \E d \in 1 .. 10 : DigitChar[d] = key[i]

\* numeric comparison of two canonical digit strings
RECURSIVE DigitsLessAt(_, _, _)
DigitsLessAt(a, b, i) ==
  IF i > Len(a) THEN FALSE
  ELSE IF DigitVal(a[i]) < DigitVal(b[i]) THEN TRUE
  ELSE IF DigitVal(a[i]) > DigitVal(b[i]) THEN FALSE
  ELSE DigitsLessAt(a, b, i + 1)

DigitsLess(a, b) ==
  IF Len(a) # Len(b) THEN Len(a) < Len(b) ELSE DigitsLessAt(a, b, 1)

\* 2^32 - 1, the first integer that is not an array index
MaxIndexDigits == <<"4", "2", "9", "4", "9", "6", "7", "2", "9", "5">>

IsArrayIndex(key) ==
  /\ key # <<>>
  /\ IsDigits(key)
  /\ (Len(key) = 1 \/ key[1] # "0")
  /\ DigitsLess(key, MaxIndexDigits)

HasKey(obj, key) == \E i \in 1 .. Len(obj) : obj[i].key = key

Get(obj, key) == obj[CHOOSE i \in 1 .. Len(obj) : obj[i].key = key].val

Keys(obj) == {obj[i].key : i \in 1 .. Len(obj)}

\* the place of a new key among the entries of obj
Place(obj, key) ==
  IF IsArrayIndex(key)
  THEN 1 + Cardinality({i \in 1 .. Len(obj) :
                          /\ IsArrayIndex(obj[i].key)
                          /\ DigitsLess(obj[i].key, key)})
  ELSE Len(obj) + 1

Insert(obj, p, entry) ==
  [i \in 1 .. Len(obj) + 1 |->
     IF i < p THEN obj[i] ELSE IF i = p THEN entry ELSE obj[i - 1]]

\* obj[key] = val
Put(obj, key, val) ==
  IF HasKey(obj, key)
  THEN [i \in 1 .. Len(obj) |->
          IF obj[i].key = key THEN [key |-> key, val |-> val] ELSE obj[i]]
  ELSE Insert(obj, Place(obj, key), [key |-> key, val |-> val])

\* Number.prototype.toString of a non-negative integer
RECURSIVE NumberToString(_)
NumberToString(n) ==
  IF n < 10 THEN <<DigitChar[n + 1]>>
  ELSE NumberToString(n \div 10) \o <<DigitChar[(n % 10) + 1]>>

(***************************************************************************)
(* class Atom2 and class Expression2                                       *)
(***************************************************************************)
RECURSIVE Log10Floor(_)
Log10Floor(abs) == IF abs < 10 THEN 0 ELSE 1 + Log10Floor(abs \div 10)

RECURSIVE Pow10(_)
Pow10(pow) == IF pow = 0 THEN 1 ELSE 10 * Pow10(pow - 1)

Atom2(value) ==
  [evaluate |-> Exact(value),
   start    |-> MathAbs(value) \div Pow10(Log10Floor(MathAbs(value))),
   end      |-> MathAbs(value) % 10,
   display  |-> display(Exact(value)).string]

\* Expression2 that is complete when it starts on a 6 or ends on a 9
Expression2Either(leftTerm, operation, rightTerm) ==
  [left      |-> leftTerm,
   right     |-> rightTerm,
   operation |-> operation,
   start     |-> leftTerm.start,
   end       |-> rightTerm.end,
   complete  |-> leftTerm.start = 6 \/ rightTerm.end = 9]

Expression2(leftTerm, operation, rightTerm) ==
  [left      |-> leftTerm,
   right     |-> rightTerm,
   operation |-> operation,
   start     |-> leftTerm.start,
   end       |-> rightTerm.end,
   complete  |-> leftTerm.start = 6 /\ rightTerm.end = 9]

IsExpression(term) == "operation" \in DOMAIN term

\* static get Operations
Operations(operation, left, right) ==
  CASE operation = "+"  -> plus(left, right)
    [] operation = "-"  -> minus(left, right)
    [] operation = "*"  -> times(left, right)
    [] operation = "/"  -> over(left, right)
    [] operation = "**" -> toThe(left, right)

AllOperations == <<"+", "-", "*", "/", "**">>

\* get evaluate
RECURSIVE evaluate(_)
evaluate(term) ==
  IF IsExpression(term)
  THEN Operations(term.operation, evaluate(term.left), evaluate(term.right))
  ELSE term.evaluate

\* get display: `(${Left} ${this.operation} ${Right})`
RECURSIVE termDisplay(_)
termDisplay(term) ==
  IF IsExpression(term)
  THEN <<"(">> \o termDisplay(term.left) \o <<" ", term.operation, " ">>
         \o termDisplay(term.right) \o <<")">>
  ELSE term.display

\* term.complete read as a condition: an Atom2 has no such property
IsComplete(term) == "complete" \in DOMAIN term /\ term.complete

\* compositionPair(Num): [Num, 0], [Num - 1, 1], ..., [0, Num]
compositionPair(Num) == [p \in 1 .. Num + 1 |-> <<Num - (p - 1), p - 1>>]

(***************************************************************************)
(* getExpression_version3 (N)                                              *)
(***************************************************************************)
\* the largest operation budget N the model runs
MaxN == 3

VARIABLES
  N,             \* the argument of getExpression_version3
  pc,            \* "start", "left" (in the loops), "project", "done"
  List,          \* List[k + 1] is the table of level k
  knownNumbers,  \* the array knownNumbers
  operations,    \* the level under construction
  compIndex,     \* index of the current composition in Compositions
  LeftPos,       \* position of LeftIndex in the keys of LeftNumbers
  floatCounter,  \* let floatCounter of the current composition
  result,        \* the value returned
  call,          \* the Exact operation applied by the arithmetic runs
  ret            \* its result

vars == <<N, pc, List, knownNumbers, operations, compIndex, LeftPos,
          floatCounter, result, call, ret>>

\* Object.keys(Expression2.Operations).filter(op => op !== '**')
OperationList == SelectSeq(AllOperations, LAMBDA op : op # "**")

AtomValues == <<-6, 6, -9, 9, 69, -69>>

RECURSIVE AtomTable(_)
AtomTable(n) ==
  IF n = 0 THEN <<>>
  ELSE Put(AtomTable(n - 1), Atom2(AtomValues[n]).display,
           Atom2(AtomValues[n]))

\* List[0]: the object literal of the six atoms
Level0 == AtomTable(Len(AtomValues))

InitialKnown == <<Atom2(69).display, Atom2(-69).display>>

Includes(array, x) == \E i \in 1 .. Len(array) : array[i] = x

FloatKey(counter) == <<"f", "l", "o", "a", "t">> \o NumberToString(counter)

\* the longest decimal key kept is one character shorter than this
KeyLengthLimit == 20

\* the body of the operator loop once the adjacency test has passed: evaluate
\* newExpression and retain it or not.  st = [table, known, fc] is
\* List[operations], knownNumbers and floatCounter; Retain is the branch of
\* an integer Display, Store the one of any Display, Consider the whole.
\* Retain without the test on knownNumbers
RetainKnown(st, newExpression, key, ops, n) ==
  IF Len(key) < KeyLengthLimit
  THEN [st EXCEPT
          !.table = IF newExpression.complete \/ ops < n
                    THEN Put(@, key, newExpression) ELSE @,
          !.known = IF newExpression.complete THEN Append(@, key) ELSE @]
  ELSE st

Retain(st, newExpression, key, ops, n) ==
  IF ~Includes(st.known, key) /\ Len(key) < KeyLengthLimit
  THEN [st EXCEPT
          !.table = IF newExpression.complete \/ ops < n
                    THEN Put(@, key, newExpression) ELSE @,
          !.known = IF newExpression.complete THEN Append(@, key) ELSE @]
  ELSE st

Store(st, newExpression, Display, ops, n) ==
  IF "float" \in DOMAIN Display
  THEN IF ops < n
       THEN [st EXCEPT !.table = Put(@, FloatKey(st.fc), newExpression)]
       ELSE st
  ELSE Retain(st, newExpression, Display.string, ops, n)

Verified(st, newExpression, Verify, ops, n) ==
  IF "error" \in DOMAIN Verify \/ "overflow" \in DOMAIN Verify THEN st
  ELSE Store(st, newExpression, display(Verify), ops, n)

Consider(st, newExpression, ops, n) ==
  Verified(st, newExpression, evaluate(newExpression), ops, n)

\* floatCounter++
Counted(st) == [st EXCEPT !.fc = @ + 1]

\* OperationLoop without the adjacency test
RECURSIVE OperationLoopAnyJoin(_, _, _, _, _, _, _)
OperationLoopAnyJoin(st, opList, LeftExpression, RightExpression, ignoreSumAndMul, ops, n) ==
  IF opList = <<>> THEN st
  ELSE IF ignoreSumAndMul /\ (Head(opList) = "+" \/ Head(opList) = "*")
  THEN st
  ELSE OperationLoopAnyJoin(
         Counted(Consider(st, Expression2(LeftExpression, Head(opList),
                                          RightExpression), ops, n)),
         Tail(opList), LeftExpression, RightExpression, ignoreSumAndMul,
         ops, n)

\* for (const Operation of OperationList), from the operators opList on; the
\* test on ignoreSumAndMul leaves the loop (break), floatCounter++ ends each
\* completed iteration
RECURSIVE OperationLoop(_, _, _, _, _, _, _)
OperationLoop(st, opList, LeftExpression, RightExpression, ignoreSumAndMul, ops, n) ==
  IF opList = <<>> THEN st
  ELSE IF ignoreSumAndMul /\ (Head(opList) = "+" \/ Head(opList) = "*")
  THEN st
  ELSE OperationLoop(
         Counted(IF LeftExpression.end # RightExpression.start
                 THEN Consider(st, Expression2(LeftExpression, Head(opList),
                                               RightExpression), ops, n)
                 ELSE st),
         Tail(opList), LeftExpression, RightExpression, ignoreSumAndMul,
         ops, n)

\* whether both for-in loops of composition d of level ops have an iteration
Runs(lst, ops, d) ==
  /\ Len(lst[compositionPair(ops - 1)[d][1] + 1]) > 0
  /\ Len(lst[compositionPair(ops - 1)[d][2] + 1]) > 0

\* the first composition of level ops, from index c on, that runs; 0 when
\* there is none
NextComposition(lst, ops, c) ==
  IF \E d \in c .. ops : Runs(lst, ops, d)
  THEN CHOOSE d \in c .. ops :
         Runs(lst, ops, d) /\ \A e \in c .. (d - 1) : ~Runs(lst, ops, e)
  ELSE 0

\* the head of the loop over operations: List[operations] = {} and the first
\* composition, or the end of the loop
RECURSIVE EnterLevel(_, _, _)
EnterLevel(lst, ops, n) ==
  IF ops > n THEN [List |-> lst, operations |-> ops, compIndex |-> 0,
                   pc |-> "project"]
  ELSE IF NextComposition(Append(lst, <<>>), ops, 1) # 0
  THEN [List |-> Append(lst, <<>>), operations |-> ops,
        compIndex |-> NextComposition(Append(lst, <<>>), ops, 1),
        pc |-> "left"]
  ELSE EnterLevel(Append(lst, <<>>), ops + 1, n)

\* the step of the loops after the last pair of a composition
LeaveComposition(lst, ops, c, n) ==
  IF NextComposition(lst, ops, c + 1) # 0
  THEN [List |-> lst, operations |-> ops,
        compIndex |-> NextComposition(lst, ops, c + 1), pc |-> "left"]
  ELSE EnterLevel(lst, ops + 1, n)

\* List.forEach(N => ...) for one level: Obj[Num] = N[Num].display for the
\* entries whose term is complete.  The keys are put in for-in order, which is
\* the order Obj keeps them in.
ProjectLevel(level) ==
  [i \in 1 .. Len(SelectSeq(level, LAMBDA entry : IsComplete(entry.val))) |->
     [key |-> SelectSeq(level, LAMBDA entry : IsComplete(entry.val))[i].key,
      val |-> termDisplay(
                SelectSeq(level, LAMBDA entry : IsComplete(entry.val))[i].val)]]

NoCall == [fn |-> "none"]

EngineInit ==
  /\ N \in 0 .. MaxN
  /\ pc = "start"
  /\ List = <<Level0>>
  /\ knownNumbers = InitialKnown
  /\ operations = 0
  /\ compIndex = 0
  /\ LeftPos = 0
  /\ floatCounter = 0
  /\ result = <<>>
  /\ call = NoCall
  /\ ret = NoCall

\* if (N === 0) return List
ReturnList ==
  /\ pc = "start"
  /\ N = 0
  /\ result' = List
  /\ pc' = "done"
  /\ UNCHANGED <<N, List, knownNumbers, operations, compIndex, LeftPos,
                 floatCounter, call, ret>>

\* entering the loop over operations
Start ==
  /\ pc = "start"
  /\ N # 0
  /\ \E e \in {EnterLevel(List, 1, N)} :
       /\ List' = e.List
       /\ operations' = e.operations
       /\ compIndex' = e.compIndex
       /\ pc' = e.pc
  /\ LeftPos' = 1
  /\ floatCounter' = 0
  /\ UNCHANGED <<N, knownNumbers, result, call, ret>>

\* LeftNumbers, RightNumbers and ignoreSumAndMul of the current composition
LeftNumbers == List[compositionPair(operations - 1)[compIndex][1] + 1]

RightNumbers == List[compositionPair(operations - 1)[compIndex][2] + 1]

ignoreSumAndMul ==
  compositionPair(operations - 1)[compIndex][1]
    < compositionPair(operations - 1)[compIndex][2]

\* the loop over RightIndex for one LeftExpression: the operator loop for the
\* entries lo .. hi of RightNumbers, in order (split in halves, and with a
\* look at the counter that has st computed before the loop goes on, to keep
\* the evaluation shallow; floatCounter is never negative)
RECURSIVE RightLoop(_, _, _, _, _, _, _, _)
RightLoop(st, LeftExpression, Right, lo, hi, ignore, ops, n) ==
  IF lo > hi \/ st.fc < 0 THEN st
  ELSE IF lo = hi
  THEN OperationLoop(st, OperationList, LeftExpression, Right[lo].val, ignore,
                     ops, n)
  ELSE RightLoop(RightLoop(st, LeftExpression, Right, lo, (lo + hi) \div 2,
                           ignore, ops, n),
                 LeftExpression, Right, (lo + hi) \div 2 + 1, hi, ignore, ops,
                 n)

\* one iteration of the loop over LeftIndex: the loops over RightIndex and
\* the operators for LeftExpression, then the step of the enclosing loops
LeftIteration ==
  /\ pc = "left"
  /\ operations <= MaxN
  /\ \E st \in {RightLoop([table |-> List[operations + 1],
                           known |-> knownNumbers, fc |-> floatCounter],
                          LeftNumbers[LeftPos].val, RightNumbers, 1,
                          Len(RightNumbers), ignoreSumAndMul, operations, N)} :
       /\ knownNumbers' = st.known
       /\ IF LeftPos < Len(LeftNumbers)
          THEN /\ LeftPos' = LeftPos + 1
               /\ floatCounter' = st.fc
               /\ List' = [List EXCEPT ![operations + 1] = st.table]
               /\ UNCHANGED <<compIndex, operations, pc>>
          ELSE \E e \in {LeaveComposition(
                           [List EXCEPT ![operations + 1] = st.table],
                           operations, compIndex, N)} :
                 /\ List' = e.List
                 /\ operations' = e.operations
                 /\ compIndex' = e.compIndex
                 /\ pc' = e.pc
                 /\ LeftPos' = 1
                 /\ floatCounter' = 0
  /\ UNCHANGED <<N, result, call, ret>>

\* the loop over LeftIndex for the entries lo .. hi of LeftNumbers, in order
\* (split in halves as RightLoop is)
RECURSIVE LeftLoop(_, _, _, _, _, _, _, _)
LeftLoop(st, Left, Right, lo, hi, ignore, ops, n) ==
  IF lo > hi \/ st.fc < 0 THEN st
  ELSE IF lo = hi
  THEN RightLoop(st, Left[lo].val, Right, 1, Len(Right), ignore, ops, n)
  ELSE LeftLoop(LeftLoop(st, Left, Right, lo, (lo + hi) \div 2, ignore, ops,
                         n),
                Left, Right, (lo + hi) \div 2 + 1, hi, ignore, ops, n)

\* one call of the function handed to Compositions.forEach: all the
\* iterations of the loop over LeftIndex, then the step of the enclosing loops
Composition ==
  /\ pc = "left"
  /\ operations <= MaxN
  /\ LeftPos = 1
  /\ \E st \in {LeftLoop([table |-> List[operations + 1],
                          known |-> knownNumbers, fc |-> 0],
                         LeftNumbers, RightNumbers, 1, Len(LeftNumbers),
                         ignoreSumAndMul, operations, N)} :
       /\ knownNumbers' = st.known
       /\ \E e \in {LeaveComposition(
                      [List EXCEPT ![operations + 1] = st.table],
                      operations, compIndex, N)} :
            /\ List' = e.List
            /\ operations' = e.operations
            /\ compIndex' = e.compIndex
            /\ pc' = e.pc
  /\ LeftPos' = 1
  /\ floatCounter' = 0
  /\ UNCHANGED <<N, result, call, ret>>

\* DisplayList and return {DisplayList, knownNumbers}
Project ==
  /\ pc = "project"
  /\ result' = [DisplayList |->
                  [k \in 1 .. Len(List) |-> ProjectLevel(List[k])],
                knownNumbers |-> knownNumbers]
  /\ pc' = "done"
  /\ UNCHANGED <<N, List, knownNumbers, operations, compIndex, LeftPos,
                 floatCounter, call, ret>>

(***************************************************************************)
(* Calls of the Exact methods on their own: the operands a and b are drawn *)
(* at the start, one method is applied, and over may be applied to the     *)
(* result of times.                                                        *)
(***************************************************************************)
\* the largest |numerator| and the largest denominator of the operands
MaxNum == 4

MaxDen == 3

RECURSIVE NatGCD(_, _)
NatGCD(x, y) == IF y = 0 THEN x ELSE NatGCD(y, x % y)

Fraction(n, d, r) == [num |-> BigInt(n), den |-> BigInt(d), root |-> BigInt(r)]

\* the reduced fractions n / d with root 1
Operands ==
  {Fraction(q[1], q[2], 1) :
     q \in {p \in (-MaxNum .. MaxNum) \X (1 .. MaxDen) :
              NatGCD(MathAbs(p[1]), p[2]) = 1}}

\* bases and exponents of toThe: integers and fractions, small and large
\* exponents, and exponents that carry a root
Bases ==
  {Fraction(n, 1, 1) : n \in {0, 1, -1, 2, -2, 3, 6, 9, 10, 69, -69, 100}}
    \cup {Fraction(1, 2, 1), Fraction(-3, 2, 1), Fraction(1, 10, 1),
          Fraction(10, 3, 1), Fraction(216, 1, 2)}

Exponents ==
  {Fraction(n, 1, 1) : n \in {0, 1, -1, 2, -2, 3, 6, 11, 12, 21, 22, -22, 69,
                              100, 101, -101}}
    \cup {Fraction(1, 2, 1), Fraction(3, 2, 1), Fraction(-1, 2, 1),
          Fraction(101, 2, 1), Fraction(2, 1, 2), Fraction(3, 2, 3)}

\* integers about as long as the longest key kept: the powers of ten up to
\* MaxPower, and the factors they are multiplied by
MaxPower == 20

RECURSIVE PowerOfTen(_)
PowerOfTen(k) ==
  IF k = 0 THEN BigOne ELSE BigMul(BigInt(10), PowerOfTen(k - 1))

LongOperands ==
  {[num |-> PowerOfTen(k), den |-> BigOne, root |-> BigOne] :
     k \in (KeyLengthLimit - 3) .. MaxPower}

Factors == {Exact(1), Exact(-1), Exact(10)}

ExactInit ==
  /\ pc = "call"
  /\ \/ call \in [fn : {"arith"}, a : Operands, b : Operands]
     \/ call \in [fn : {"power"}, a : Bases, b : Exponents]
     \/ call \in [fn : {"candidate"}, a : LongOperands, b : Factors]
  /\ ret = NoCall
  /\ N = 0
  /\ List = <<>>
  /\ knownNumbers = <<>>
  /\ operations = 0
  /\ compIndex = 0
  /\ LeftPos = 0
  /\ floatCounter = 0
  /\ result = <<>>

Return(fn, value) ==
  /\ ret' = [fn |-> fn, value |-> value]
  /\ pc' = "return"
  /\ UNCHANGED <<N, List, knownNumbers, operations, compIndex, LeftPos,
                 floatCounter, result, call>>

Plus == pc = "call" /\ call.fn = "arith" /\ Return("plus", plus(call.a, call.b))

Minus ==
  pc = "call" /\ call.fn = "arith" /\ Return("minus", minus(call.a, call.b))

Times ==
  pc = "call" /\ call.fn = "arith" /\ Return("times", times(call.a, call.b))

Over == pc = "call" /\ call.fn = "arith" /\ Return("over", over(call.a, call.b))

\* a.times(b).over(b)
TimesOver ==
  /\ pc = "return"
  /\ ret.fn = "times"
  /\ Return("times.over", over(ret.value, call.b))

(***************************************************************************)
(* getExpression_version2: the body of its innermost loop for one          *)
(* candidate newExpression = leftExpression ** rightExpression, where the  *)
(* operands evaluate to a and b, from newList = {float: []}.               *)
(***************************************************************************)
\* a term whose evaluate is the Exact value x
TermOf(x) == [evaluate |-> x, start |-> 6, end |-> 9, display |-> <<>>]

FloatList == <<"f", "l", "o", "a", "t">>

\* const newList = {float: []}
EmptyNewList == <<[key |-> FloatList, val |-> <<>>]>>

\* newList[key].push(newExpression), after newList[key] = [] for a new key
Push(newList, key, newExpression) ==
  IF HasKey(newList, key)
  THEN Put(newList, key, Append(Get(newList, key), newExpression))
  ELSE Put(newList, key, <<newExpression>>)

version2Keep(newList, known, newExpression, Display) ==
  IF "float" \in DOMAIN Display THEN Push(newList, FloatList, newExpression)
  ELSE IF ~Includes(known, Display.string)
       THEN Push(newList, Display.string, newExpression)
       ELSE newList

version2Verified(newList, known, newExpression, Verify) ==
  IF "error" \in DOMAIN Verify \/ "overflow" \in DOMAIN Verify THEN newList
  ELSE version2Keep(newList, known, newExpression, display(Verify))

\* if (leftExpression.end !== rightExpression.start) { ... }
version2Candidate(newList, known, leftExpression, Operation, rightExpression) ==
  IF leftExpression.end # rightExpression.start
  THEN version2Verified(
         newList, known,
         Expression2(leftExpression, Operation, rightExpression),
         evaluate(Expression2(leftExpression, Operation, rightExpression)))
  ELSE newList

ToThe ==
  /\ pc = "call"
  /\ call.fn = "power"
  /\ ret' = [fn      |-> "toThe",
             value   |-> toThe(call.a, call.b),
             newList |-> version2Candidate(EmptyNewList, InitialKnown,
                                           TermOf(call.a), "**",
                                           TermOf(call.b))]
  /\ pc' = "return"
  /\ UNCHANGED <<N, List, knownNumbers, operations, compIndex, LeftPos,
                 floatCounter, result, call>>

\* the right operands a power is joined with at the next level
RightOperands == {Exact(2), Fraction(1, 2, 1)}

\* the same body one level on, for a candidate whose leftExpression is the
\* power just evaluated and whose rightExpression evaluates to b
Rejoin ==
  /\ pc = "return"
  /\ ret.fn = "toThe"
  /\ "error" \notin DOMAIN ret.value
  /\ "overflow" \notin DOMAIN ret.value
  /\ \E i \in 1 .. Len(AllOperations), b \in RightOperands :
       ret' = [fn        |-> "join",
               left      |-> ret.value,
               operation |-> AllOperations[i],
               right     |-> b,
               value     |-> Operations(AllOperations[i], ret.value, b),
               newList   |-> version2Candidate(
                               EmptyNewList, InitialKnown, TermOf(ret.value),
                               AllOperations[i], TermOf(b))]
  /\ pc' = "joined"
  /\ UNCHANGED <<N, List, knownNumbers, operations, compIndex, LeftPos,
                 floatCounter, result, call>>

(***************************************************************************)
(* getExpression_version3: the body of its innermost loop for one          *)
(* candidate newExpression = LeftExpression * RightExpression of a last    *)
(* level (operations = N), where the operands evaluate to a and b, from an *)
(* empty List[operations] and the initial knownNumbers.                    *)
(***************************************************************************)
Candidate ==
  /\ pc = "call"
  /\ call.fn = "candidate"
  /\ ret' = [fn    |-> "candidate",
             value |-> evaluate(Expression2(TermOf(call.a), "*",
                                            TermOf(call.b))),
             kept  |-> OperationLoop(
                         [table |-> <<>>, known |-> InitialKnown, fc |-> 0],
                         <<"*">>, TermOf(call.a), TermOf(call.b), FALSE, 1,
                         1)]
  /\ pc' = "return"
  /\ UNCHANGED <<N, List, knownNumbers, operations, compIndex, LeftPos,
                 floatCounter, result, call>>

Init == EngineInit \/ ExactInit

Next ==
  \/ ReturnList
  \/ Start
  \/ LeftIteration
  \/ Project
  \/ Plus
  \/ Minus
  \/ Times
  \/ Over
  \/ TimesOver
  \/ ToThe
  \/ Rejoin
  \/ Candidate

Spec == Init /\ [][Next]_vars

\* a run with N beyond MaxN, of which the levels 1 .. MaxN are built
LevelsInit ==
  /\ N = MaxN + 1
  /\ pc = "start"
  /\ List = <<Level0>>
  /\ knownNumbers = InitialKnown
  /\ operations = 0
  /\ compIndex = 0
  /\ LeftPos = 0
  /\ floatCounter = 0
  /\ result = <<>>
  /\ call = NoCall
  /\ ret = NoCall

LevelsNext == Start \/ LeftIteration \/ Composition

SpecLevels == LevelsInit /\ [][LevelsNext]_vars

(***************************************************************************)
(* The results of a finished run, and the expression trees it is to find.  *)
(***************************************************************************)
\* the mappings returned: List itself when N = 0, else DisplayList
OutputLevels == IF N = 0 THEN result ELSE result.DisplayList

\* a decimal string of an integer: digits, after an optional minus sign
IsIntegerKey(key) ==
  /\ key # <<>>
  /\ IF key[1] = "-" THEN Len(key) > 1 /\ IsDigits(Tail(key))
     ELSE IsDigits(key)

IntegerKey(V) ==
  IF V < 0 THEN <<"-">> \o NumberToString(-V) ELSE NumberToString(V)

\* the fraction n / d in lowest terms with a positive denominator
RatioBy(n, d, g) ==
  IF d < 0 THEN <<(-n) \div g, (-d) \div g>> ELSE <<n \div g, d \div g>>

Ratio(n, d) == RatioBy(n, d, NatGCD(MathAbs(n), MathAbs(d)))

RatioApply(op, x, y) ==
  CASE op = "+" -> Ratio(x[1] * y[2] + y[1] * x[2], x[2] * y[2])
    [] op = "-" -> Ratio(x[1] * y[2] - y[1] * x[2], x[2] * y[2])
    [] op = "*" -> Ratio(x[1] * y[1], x[2] * y[2])
    [] op = "/" -> Ratio(x[1] * y[2], x[2] * y[1])

\* value, first digit and last digit of the six atoms
AtomTrees ==
  {[v |-> <<-69, 1>>, s |-> 6, e |-> 9], [v |-> <<69, 1>>, s |-> 6, e |-> 9],
   [v |-> <<-6, 1>>, s |-> 6, e |-> 6], [v |-> <<6, 1>>, s |-> 6, e |-> 6],
   [v |-> <<-9, 1>>, s |-> 9, e |-> 9], [v |-> <<9, 1>>, s |-> 9, e |-> 9]}

\* the joins l op r of trees with l.e # r.s that have a value
Joins(L, R) ==
  {[v |-> RatioApply(t[3], t[1].v, t[2].v), s |-> t[1].s, e |-> t[2].e] :
     t \in {u \in L \X R \X {OperationList[i] : i \in 1 .. Len(OperationList)} :
              u[1].e # u[2].s /\ (u[3] = "/" => u[2].v[1] # 0)}}

\* value and end digits of the expression trees of exactly k operators
RECURSIVE Trees(_)
Trees(k) ==
  IF k = 0 THEN AtomTrees
  ELSE UNION {Joins(Trees(i), Trees(k - 1 - i)) : i \in 0 .. (k - 1)}

\* the integers that are the value of a complete tree of k operators
CompleteValues(k) ==
  {t.v[1] : t \in {u \in Trees(k) : u.s = 6 /\ u.e = 9 /\ u.v[2] = 1}}

\* Shortest[k]: the integers whose smallest complete tree has k operators
Shortest ==
  [k \in 0 .. MaxN |->
     CompleteValues(k) \ UNION {CompleteValues(j) : j \in 0 .. (k - 1)}]

\* C1: when a run with budget N has finished, for every level k <= N an
\* integer V is a key of output level k if and only if k is the smallest
\* number of operators of a complete expression tree of value V.
MinimalOutput ==
  pc = "done" =>
    \A k \in 0 .. N :
      /\ \A V \in Shortest[k] : IntegerKey(V) \in Keys(OutputLevels[k + 1])
      /\ \A key \in Keys(OutputLevels[k + 1]) :
           IsIntegerKey(key) => \E V \in Shortest[k] : IntegerKey(V) = key

\* a term that starts on a 6 and ends on a 9
Settled(term) == term.start = 6 /\ term.end = 9

\* the integer keys of a level table whose term is complete
SettledKeys(level) ==
  {level[i].key : i \in {j \in 1 .. Len(level) :
                           IsIntegerKey(level[j].key) /\ Settled(level[j].val)}}

\* C2: an integer retained as a complete term in a level table (the atoms 69
\* and -69 at level 0 included) is a key of no later level table.
SettledMonotone ==
  \A k \in 1 .. Len(List) :
    \A later \in (k + 1) .. Len(List) :
      SettledKeys(List[k]) \cap Keys(List[later]) = {}

\* the Display of a value, when it has one
ValueKey(Verify) ==
  IF "error" \in DOMAIN Verify \/ "overflow" \in DOMAIN Verify
  THEN [none |-> TRUE]
  ELSE display(Verify)

\* the Display of the candidate left op right, when it is a valid join
CandidateKey(left, op, right) ==
  IF left.end = right.start THEN [none |-> TRUE]
  ELSE ValueKey(evaluate(Expression2(left, op, right)))

\* a finished run of two levels in which a candidate of level 2 had the value
\* of an integer settled at level 1, which level 2 does not hold
SettledWitness ==
  /\ pc = "done"
  /\ N = 2
  /\ \E key \in SettledKeys(List[2]) :
       /\ key \notin Keys(List[3])
       /\ \E l \in 1 .. Len(List[2]), r \in 1 .. Len(List[1]),
             i \in 1 .. Len(OperationList) :
            CandidateKey(List[2][l].val, OperationList[i], List[1][r].val)
              = [string |-> key]

\* C3: the result of a finished run is a sequence of N + 1 mappings, and each
\* of their entries has the decimal string of an integer as key and a term
\* that starts on a 6 and ends on a 9.
OutputShape ==
  pc = "done" =>
    /\ Len(OutputLevels) = N + 1
    /\ \A k \in 1 .. Len(OutputLevels) :
         \A i \in 1 .. Len(OutputLevels[k]) :
           /\ IsIntegerKey(OutputLevels[k][i].key)
           /\ Settled(Get(List[k], OutputLevels[k][i].key))

RECURSIVE Joined(_)
Joined(term) ==
  IsExpression(term) =>
    /\ term.left.end # term.right.start
    /\ Joined(term.left)
    /\ Joined(term.right)

\* C4: every term stored in a level table, and every sub-term of it, that is
\* not an atom has left.end # right.start.
AdjacencyEnforced ==
  \A k \in 1 .. Len(List) : \A i \in 1 .. Len(List[k]) : Joined(List[k][i].val)

\* a finished run that has stored terms of two operators, and terms under
\* non-integer keys, after meeting pairs of atoms that may not be joined
AdjacencyWitness ==
  /\ pc = "done"
  /\ N >= 2
  /\ \E i \in 1 .. Len(List[3]) :
       IsExpression(List[3][i].val.left) \/ IsExpression(List[3][i].val.right)
  /\ \E i \in 1 .. Len(List[2]) : ~IsIntegerKey(List[2][i].key)
  /\ \E l \in 1 .. Len(List[1]), r \in 1 .. Len(List[1]) :
       /\ List[1][l].val.end = List[1][r].val.start
       /\ \A i \in 1 .. Len(List[2]) :
            ~(List[2][i].val.left = List[1][l].val
                /\ List[2][i].val.right = List[1][r].val)

\* the results of plus, minus, times and over
Arithmetic == {"plus", "minus", "times", "over", "times.over"}

\* C5: a result of plus, minus, times or over on reduced operands has a
\* positive denominator that shares no factor with its numerator.
ReductionInvariant ==
  ret.fn \in Arithmetic /\ "error" \notin DOMAIN ret.value =>
    /\ BigLess(BigZero, ret.value.den)
    /\ NatGCD(MathAbs(BigToInt(ret.value.num)), BigToInt(ret.value.den)) = 1

\* 1/2 + 1/2, whose sum 4/4 is returned as 1/1
ReductionWitness ==
  /\ ret.fn = "plus"
  /\ call.a = Fraction(1, 2, 1)
  /\ call.b = Fraction(1, 2, 1)
  /\ ret.value = Fraction(1, 1, 1)

\* C6: for reduced fractions a and b with b # 0, the display of
\* a.times(b).over(b) is the display of a.
RoundTrip ==
  ret.fn = "times.over" /\ call.b.num # BigZero =>
    display(ret.value) = display(call.a)

\* 3 times -2/3 over -2/3, displayed as 3
RoundTripWitness ==
  /\ ret.fn = "times.over"
  /\ call.a = Fraction(3, 1, 1)
  /\ call.b = Fraction(-2, 3, 1)
  /\ display(ret.value) = [string |-> <<"3">>]

\* a '/' node whose right operand evaluates to zero
ZeroDivisor(term) ==
  /\ IsExpression(term)
  /\ term.operation = "/"
  /\ evaluate(term.right).num = BigZero

\* C7: over returns the error condition exactly when the numerator of its
\* divisor is zero, and no term stored in a level table is a '/' node whose
\* right operand evaluates to zero.
DivisionGuard ==
  /\ ret.fn = "over" => ("error" \in DOMAIN ret.value <=> call.b.num = BigZero)
  /\ \A k \in 1 .. Len(List) :
       \A i \in 1 .. Len(List[k]) : ~ZeroDivisor(List[k][i].val)

\* level 3 has joined two terms of one operator, the right one evaluating to
\* zero, and holds no quotient of them while the run goes on
DivisionWitness ==
  /\ pc = "left"
  /\ operations = 3
  /\ ~ignoreSumAndMul
  /\ \E l \in 1 .. (LeftPos - 1), r \in 1 .. Len(RightNumbers) :
       /\ IsExpression(RightNumbers[r].val)
       /\ LeftNumbers[l].val.end # RightNumbers[r].val.start
       /\ evaluate(RightNumbers[r].val).num = BigZero
       /\ \A i \in 1 .. Len(List[4]) :
            ~(/\ List[4][i].val.operation = "/"
              /\ List[4][i].val.left = LeftNumbers[l].val
              /\ List[4][i].val.right = RightNumbers[r].val)

\* the number of decimal digits of a BigInt
DigitLength(x) == IF x = BigZero THEN 1 ELSE Len(displayLoop(Abs(x), <<>>))

\* the for loop of toThe with the digit lengths in the place of BigIntLog10
LengthGuard(Res) ==
  IF MathAbs(DigitLength(Res.num) - DigitLength(Res.den)) > 20
  THEN [overflow |-> TRUE]
  ELSE Res

RECURSIVE LengthLoop(_, _, _, _)
LengthLoop(Res, This, lo, hi) ==
  IF "overflow" \in DOMAIN Res \/ lo > hi THEN Res
  ELSE IF lo = hi THEN LengthGuard(times(Res, This))
  ELSE LengthLoop(LengthLoop(Res, This, lo, (lo + hi) \div 2), This,
                  (lo + hi) \div 2 + 1, hi)

\* whether, after some multiplication of a to the power b, the digit lengths
\* of numerator and denominator differ by more than 20
LengthsDiverge(a, b) ==
  "overflow" \in DOMAIN
    LengthLoop(IF BigLess(b.num, BigZero) THEN inverse(a) ELSE copy(a),
               IF BigLess(b.num, BigZero) THEN inverse(a) ELSE copy(a),
               1, BigToInt(Abs(b.num)) - 1)

\* C8: toThe(a, b) overflows exactly when |b.num| > 100 or, after some
\* multiplication, the digit lengths of numerator and denominator differ by
\* more than 20; 9 to the 6 is 531441 and 69 to the 69 overflows.
PowerGuard ==
  ret.fn = "toThe" /\ call.b.root = BigOne =>
    /\ "overflow" \in DOMAIN ret.value
         <=> (BigLess(BigInt(100), Abs(call.b.num))
                \/ LengthsDiverge(call.a, call.b))
    /\ call.a = Fraction(9, 1, 1) /\ call.b = Fraction(6, 1, 1)
         => ret.value = Fraction(531441, 1, 1)
    /\ call.a = Fraction(69, 1, 1) /\ call.b = Fraction(69, 1, 1)
         => "overflow" \in DOMAIN ret.value

\* C9 as stated: an exponent whose denominator or root is not 1 is refused
\* with the error condition, and the candidate is kept under no key.
ExponentRefused ==
  ret.fn = "toThe" /\ (call.b.den # BigOne \/ call.b.root # BigOne) =>
    /\ "error" \in DOMAIN ret.value
    /\ ret.newList = EmptyNewList

\* C9: toThe refuses an exponent with the error condition exactly when its
\* root is not 1, and the candidate is then kept under no key; a power by an
\* exponent of root 1 and denominator d # 1 that does not overflow carries
\* the root d, displays as a non-integer, and is kept in the float list only.
ExponentRoot ==
  ret.fn = "toThe" =>
    /\ "error" \in DOMAIN ret.value <=> call.b.root # BigOne
    /\ "error" \in DOMAIN ret.value => ret.newList = EmptyNewList
    /\ (/\ call.b.root = BigOne
        /\ call.b.den # BigOne
        /\ "overflow" \notin DOMAIN ret.value)
         => /\ ret.value.root = call.b.den
            /\ display(ret.value) = [float |-> TRUE]
            /\ ret.newList =
                 <<[key |-> FloatList,
                    val |-> <<Expression2(TermOf(call.a), "**",
                                          TermOf(call.b))>>]>>

\* 9 to the 1/2, returned as 9 with the root 2 and kept in the float list
ExponentWitness ==
  /\ ret.fn = "toThe"
  /\ call.a = Fraction(9, 1, 1)
  /\ call.b = Fraction(1, 2, 1)
  /\ ret.value = Fraction(9, 1, 2)
  /\ Len(ret.newList[1].val) = 1

\* C10: a finished run with N = 1 maps, in output level 1, '0' to (69 - 69),
\* '1' to (69 / 69) and '3' to (-6 + 9), and these three terms are complete.
LevelOne ==
  pc = "done" /\ N = 1 =>
    /\ HasKey(OutputLevels[2], <<"0">>)
    /\ Get(OutputLevels[2], <<"0">>)
         = <<"(", "6", "9", " ", "-", " ", "6", "9", ")">>
    /\ Get(List[2], <<"0">>).complete
    /\ HasKey(OutputLevels[2], <<"1">>)
    /\ Get(OutputLevels[2], <<"1">>)
         = <<"(", "6", "9", " ", "/", " ", "6", "9", ")">>
    /\ Get(List[2], <<"1">>).complete
    /\ HasKey(OutputLevels[2], <<"3">>)
    /\ Get(OutputLevels[2], <<"3">>)
         = <<"(", "-", "6", " ", "+", " ", "9", ")">>
    /\ Get(List[2], <<"3">>).complete

\* a finished run with N = 1 whose level 1 holds 69 - 69 under '0'
LevelOneWitness ==
  /\ pc = "done"
  /\ N = 1
  /\ Get(List[2], <<"0">>).operation = "-"
  /\ Get(List[2], <<"0">>).left = Atom2(69)
  /\ Get(List[2], <<"0">>).right = Atom2(69)

\* the term (-6 + 9) and its product with itself
ExampleThree == Expression2(Atom2(-6), "+", Atom2(9))

ExampleNine == Expression2(ExampleThree, "*", ExampleThree)

\* the first complete term of value 9 in the order of the loops
FirstNine ==
  Expression2(Expression2(Expression2(Atom2(6), "-", Atom2(9)), "*",
                          Atom2(-6)),
              "-", Atom2(9))

\* C11 as stated: a finished run with N = 2 has '9' in output level 2,
\* mapped to ((-6 + 9) * (-6 + 9)).
LevelTwoNine ==
  pc = "done" /\ N = 2 =>
    /\ HasKey(OutputLevels[3], <<"9">>)
    /\ Get(OutputLevels[3], <<"9">>) = termDisplay(ExampleNine)

\* C11: ((-6 + 9) * (-6 + 9)) joins two terms of level 1, which makes it a
\* term of three operators: a finished run with N >= 2 has no '9' in output
\* level 2, and a finished run with N = 3 has '9' in output level 3, mapped
\* to the first complete term found for it, (((6 - 9) * -6) - 9).
LevelThreeNine ==
  pc = "done" /\ N >= 2 =>
    /\ Get(List[2], <<"3">>) = ExampleThree
    /\ evaluate(ExampleNine) = Exact(9)
    /\ ~HasKey(OutputLevels[3], <<"9">>)
    /\ N = 3 => /\ HasKey(OutputLevels[4], <<"9">>)
                /\ Get(List[4], <<"9">>) = FirstNine
                /\ Get(OutputLevels[4], <<"9">>) = termDisplay(FirstNine)

\* a finished run with N = 2, which holds (-6 + 9) at level 1 and no 9 at
\* level 2
LevelThreeNineWitness ==
  /\ pc = "done"
  /\ N = 2
  /\ Get(List[2], <<"3">>) = ExampleThree
  /\ ~HasKey(List[3], <<"9">>)

\* the operators the commutative pruning is meant to leave in place
NonCommutative == SelectSeq(OperationList, LAMBDA o : o # "+" /\ o # "*")

\* what the operator loop makes of the pair (LeftExpression, right) from the
\* tables of the current state, walking opList
Attempt(opList, right, ignore) ==
  OperationLoop([table |-> List[operations + 1], known |-> knownNumbers,
                 fc |-> floatCounter],
                opList, LeftNumbers[LeftPos].val, right, ignore, operations, N)

\* C12: in a composition (i, j) with i < j the operator loop leaves, for
\* every pair (left in levels[i], right in levels[j]), the level table and
\* the settled integers as a loop over the other operators ('-', '/') does:
\* only '+' and '*' are skipped.
StillAttempted ==
  pc = "left" /\ ignoreSumAndMul =>
    \A r \in 1 .. Len(RightNumbers) :
      /\ Attempt(OperationList, RightNumbers[r].val, TRUE).table
           = Attempt(NonCommutative, RightNumbers[r].val, FALSE).table
      /\ Attempt(OperationList, RightNumbers[r].val, TRUE).known
           = Attempt(NonCommutative, RightNumbers[r].val, FALSE).known

\* the integers settled in the levels 0 .. k of a finished run
SettledUpTo(k) == UNION {SettledKeys(List[m + 1]) : m \in 0 .. k}

\* whether the join left op right is a complete term with an integer value
\* that the range guard lets through
CompleteInteger(left, op, right) ==
  /\ left.start = 6
  /\ right.end = 9
  /\ "string" \in DOMAIN CandidateKey(left, op, right)
  /\ Len(CandidateKey(left, op, right).string) < KeyLengthLimit

\* C13: in a finished run, for every composition (i, j) with i < j of a
\* level k, every integer that a '+' or '*' join of a pair (left in
\* levels[i], right in levels[j]) yields as a complete term is settled in one
\* of the levels 0 .. k.
PruningLosesNothing ==
  pc = "done" /\ N >= 1 =>
    \A k \in 1 .. N : \A c \in 1 .. Len(compositionPair(k - 1)) :
      compositionPair(k - 1)[c][1] < compositionPair(k - 1)[c][2] =>
        \A l \in 1 .. Len(List[compositionPair(k - 1)[c][1] + 1]),
           r \in 1 .. Len(List[compositionPair(k - 1)[c][2] + 1]),
           o \in {"+", "*"} :
          CompleteInteger(List[compositionPair(k - 1)[c][1] + 1][l].val, o,
                          List[compositionPair(k - 1)[c][2] + 1][r].val)
            => CandidateKey(List[compositionPair(k - 1)[c][1] + 1][l].val, o,
                            List[compositionPair(k - 1)[c][2] + 1][r].val).string
                 \in SettledUpTo(k)

\* the entries of a level table under non-integer keys, in the order of
\* their creation
Floats(level) == SelectSeq(level, LAMBDA entry : ~IsIntegerKey(entry.key))

\* C14: the terms retained under non-integer keys in a level table stay as
\* they are, each under its key, whatever later compositions of the level
\* add: no step assigns a non-integer key that the table already has.
UniqueFloatKeys ==
  [][\A k \in 1 .. Len(List) :
       SubSeq(Floats(List'[k]), 1, Len(Floats(List[k]))) = Floats(List[k])]_vars

\* C15: a term retained under an integer key in a level table is the term
\* the table holds under that key ever after: no step replaces it.
FirstDiscoveryWins ==
  [][\A k \in 1 .. Len(List) : \A i \in 1 .. Len(List[k]) :
       IsIntegerKey(List[k][i].key) =>
         /\ HasKey(List'[k], List[k][i].key)
         /\ Get(List'[k], List[k][i].key) = List[k][i].val]_vars

\* C16: an integer result that is no settled value is discarded exactly when
\* its decimal key, sign included, has more than 20 characters.
RangeGuard ==
  ret.fn = "candidate" =>
    (ret.kept.table = <<>> <=> Len(display(ret.value).string) > 20)

\* whether a value is an Exact rather than an error or an overflow
IsValue(x) == "error" \notin DOMAIN x /\ "overflow" \notin DOMAIN x

\* C17: an Exact whose root is not 1 has the non-integer marker as display,
\* and so has every Exact that plus, minus, times or over compute from it
\* and that toThe computes with it as base; a candidate made of such a value
\* is retained under no integer key.
RootMarker ==
  /\ ret.fn \in {"toThe", "join"} /\ IsValue(ret.value)
       /\ ret.value.root # BigOne
       => display(ret.value) = [float |-> TRUE]
  /\ ret.fn = "toThe" /\ IsValue(ret.value) /\ call.a.root # BigOne
       => /\ display(ret.value) = [float |-> TRUE]
          /\ Keys(ret.newList) = {FloatList}
  /\ ret.fn = "join" /\ IsValue(ret.value) /\ ret.left.root # BigOne
       => /\ display(ret.value) = [float |-> TRUE]
          /\ Keys(ret.newList) = {FloatList}

\* x to the n, as the product of two powers of about half the exponent
RECURSIVE RefPower(_, _)
RefPower(x, n) ==
  IF n = 0 THEN BigOne
  ELSE IF n = 1 THEN x
  ELSE BigMul(RefPower(x, n \div 2), RefPower(x, n - n \div 2))

\* a to the n for a reduced fraction a and an integer n, in lowest terms with
\* a positive denominator (a # 0 when n < 0)
ExactPower(a, n) ==
  IF n >= 0
  THEN [num |-> RefPower(a.num, n), den |-> RefPower(a.den, n),
        root |-> BigOne]
  ELSE [num  |-> BigMul(RefPower(Factor(a.num), -n), RefPower(a.den, -n)),
        den  |-> RefPower(Abs(a.num), -n),
        root |-> BigOne]

\* C18: for a reduced base a with root 1 and an integer exponent b with
\* |b| <= 100, toThe reports an error when a = 0 and b < 0 and otherwise,
\* unless it reports overflow, returns a to the b in lowest terms with a
\* positive denominator (1 when b = 0 and a # 0).
PowerExact ==
  (/\ ret.fn = "toThe"
   /\ call.a.root = BigOne
   /\ call.b.den = BigOne
   /\ call.b.root = BigOne
   /\ ~BigLess(BigInt(MaxExponent), Abs(call.b.num))) =>
    IF call.a.num = BigZero
    THEN BigLess(call.b.num, BigZero) => "error" \in DOMAIN ret.value
    ELSE "overflow" \notin DOMAIN ret.value =>
           ret.value = ExactPower(call.a, BigToInt(call.b.num))

====
